---- MODULE Spec2Model ----
(***************************************************************************)
(* Model of the BOLT12 offers subsystem of the wallet: the three Offers    *)
(* backends (wallets/coreln, connections/coreln with an error channel,     *)
(* and the legacy connections/coreln) and the per-connection error history *)
(* kept by connectionErrors$ in streams.ts.                                *)
(***************************************************************************)
EXTENDS Integers, Sequences, FiniteSets, TLC

VARIABLES
    connectionErrors,  \* accumulator of the scan in connectionErrors$: id -> list of errors
    emitted,           \* channel specification: per connection id, the errors delivered to the scan
    ignored,           \* channel specification: number of emissions the filter or id check discarded
    conn,              \* the connection the Offers instance was constructed with
    clock,             \* nowSeconds()
    call,              \* the running invocation of an Offers operation (or idle)
    invoked,           \* number of invocations started
    held,              \* flags specification: the flags of the Offers the caller was last returned
    second,            \* concurrent specification: a second invocation running beside call
    allLogs,           \* log specification: accumulator of the scan in recentLogs$
    logged             \* log specification: the messages received since the last CLEAR_ALL_LOGS

vars ==
    <<connectionErrors, emitted, ignored, conn, clock, call, invoked, held, second, allLogs,
      logged>>

(***************************************************************************)
(* Bounds of the model.                                                    *)
(***************************************************************************)
MaxPush == 12          \* connection errors pushed per connection (channel specification)
MaxIgnored == 2        \* discarded emissions (channel specification)
MaxInvocations == 2    \* invocations of operations in one behaviour
MaxTicks == 1          \* seconds the clock advances
MaxSats == 2000000     \* largest sat amount of the conversion round trip
MaxLogs == 52          \* messages received on log$ (log specification)
MaxClears == 2         \* CLEAR_ALL_LOGS messages among them (log specification)

(***************************************************************************)
(* JavaScript values.  An optional value is <<>> (undefined) or <<v>>.     *)
(***************************************************************************)
Undefined == <<>>

Def(v) == <<v>>

IsDef(o) == o # Undefined

Val(o) == o[1]

\* truthiness of an optional number: undefined and 0 are falsy
TruthyNum(o) == IsDef(o) /\ Val(o) # 0

\* truthiness of an optional string: undefined and "" are falsy
TruthyStr(o) == IsDef(o) /\ Val(o) # ""

\* truthiness of an optional decimal string: undefined is falsy, every
\* decimal string is non-empty and so truthy ("0" included)
TruthyAmount(o) == IsDef(o)

\* a || b on optional decimal strings
OrAmount(a, b) == IF TruthyAmount(a) THEN a ELSE b

\* a || b on optional strings
OrStr(a, b) == IF TruthyStr(a) THEN a ELSE b

\* a destructured property: undefined when the object has no such property
Field(object, name) == IF name \in DOMAIN object THEN Def(object[name]) ELSE Undefined

(***************************************************************************)
(* The error channel (streams.ts).                                         *)
(***************************************************************************)
ConnectionIds == {"wallet1", "conn1", "legacy1"}

ErrorKeys == {"connection_error", "app_error"}

\* error.key.startsWith('connection_')
StartsWithConnection(key) == key \in {"connection_error"}

\* An AppError: key and detail; detail carries context, connectionId and the raw payload.
AppError(key, context, connectionId, payload) ==
    [key |-> key,
     detail |-> [context |-> context, connectionId |-> connectionId, payload |-> payload]]

\* mutant: the assignment to errors.length is left out
SetLengthIgnored(s, n) == s

\* the first n elements of s: the effect of `errors.length = n` for n <= Len(s)
SetLength(s, n) == SubSeq(s, 1, n)

Min(a, b) == IF a <= b THEN a ELSE b

HistoryCap == 10

\* mutant: the accumulator returned holds the list of this connection only
ScanStepDropsOthers(acc, value) ==
    LET connectionId == value.detail.connectionId IN
    IF ~IsDef(connectionId) \/ Val(connectionId) = ""
    THEN acc
    ELSE LET id == Val(connectionId)
             errors == (IF id \in DOMAIN acc THEN acc[id] ELSE <<>>) \o <<value>>
             kept == SetLength(errors, Min(Len(errors), HistoryCap))
         IN  [c \in {id} |-> kept]

\* the reducer of the scan of connectionErrors$
ScanStep(acc, value) ==
    LET connectionId == value.detail.connectionId IN
    IF ~IsDef(connectionId) \/ Val(connectionId) = ""
    THEN acc
    ELSE LET id == Val(connectionId)
             errors == (IF id \in DOMAIN acc THEN acc[id] ELSE <<>>) \o <<value>>
             kept == SetLength(errors, Min(Len(errors), HistoryCap))
         IN  [c \in (DOMAIN acc) \cup {id} |-> IF c = id THEN kept ELSE acc[c]]

\* whether an emission on errors$ reaches the stored history
Recorded(value) ==
    /\ StartsWithConnection(value.key)
    /\ IsDef(value.detail.connectionId)
    /\ Val(value.detail.connectionId) # ""

\* mutant: the filter on the key is left out
ErrorsNextUnfiltered(acc, value) == ScanStep(acc, value)

\* errors$.next(value) as seen by connectionErrors$: filter, then scan
ErrorsNext(acc, value) ==
    IF StartsWithConnection(value.key) THEN ScanStep(acc, value) ELSE acc

\* the log of recorded emissions, per connection id
LogNext(log, value) ==
    IF Recorded(value)
    THEN LET id == Val(value.detail.connectionId) IN
         [c \in (DOMAIN log) \cup {id} |->
            IF c = id THEN (IF id \in DOMAIN log THEN log[id] ELSE <<>>) \o <<value>>
            ELSE log[c]]
    ELSE log

EmptyRecord == [c \in {} |-> <<>>]

History(id) == IF id \in DOMAIN connectionErrors THEN connectionErrors[id] ELSE <<>>

Pushed(id) == IF id \in DOMAIN emitted THEN emitted[id] ELSE <<>>

\* the last n elements of s
LastN(s, n) == IF Len(s) <= n THEN s ELSE SubSeq(s, Len(s) - n + 1, Len(s))

(***************************************************************************)
(* Amounts.  A decimal string is modelled by its sign, its whole part, its *)
(* thousandths and whether a unit suffix "msat" trails it.                 *)
(***************************************************************************)
Dec(neg, whole, milli) == [neg |-> neg, whole |-> whole, milli |-> milli, suffix |-> FALSE]

Sats(n) == Dec(FALSE, n, 0)

Msat(n) == Dec(FALSE, n, 0)

MsatSuffixed(n) == [neg |-> FALSE, whole |-> n, milli |-> 0, suffix |-> TRUE]

\* the string 'any'
AnyAmount == [any |-> TRUE]

\* Big(sats).times(1000).toString()
satsToMsats(sats) == Dec(sats.neg, sats.whole * 1000 + sats.milli, 0)

\* Big(msats).div(1000).toString(), exact
msatsToSats(msats) == Dec(msats.neg, msats.whole \div 1000, msats.whole % 1000)

FormatError == [name |-> "FormatError"]

\* strips the unit suffix; undefined has no string form and raises
formatMsatString(raw) ==
    IF IsDef(raw)
    THEN [ok |-> TRUE, value |-> [Val(raw) EXCEPT !.suffix = FALSE]]
    ELSE [ok |-> FALSE, error |-> FormatError]

\* the msat-denominated backends strip the suffix the same way
stripMsatSuffix(raw) == formatMsatString(raw)

Signed(d) == IF d.neg THEN 0 - d.whole ELSE d.whole

\* Big(a).minus(b).toString() on integer strings
BigMinus(a, b) ==
    LET diff == Signed(a) - Signed(b) IN
    IF diff < 0 THEN Dec(TRUE, 0 - diff, 0) ELSE Dec(FALSE, diff, 0)

(***************************************************************************)
(* BOLT12 strings and their decoding.                                      *)
(***************************************************************************)
Bolt12Strings == {"lno1a", "lno1b", "lnr1a", "lnr1b", "garbage"}

\* whether the string is a well-formed BOLT12 offer or invoice request
WellFormed(bolt12) == bolt12 # "garbage"

DecodeError == [name |-> "DecodeError"]

\* decodeBolt12(bolt12): the decoded fields of a well-formed string
decodeBolt12(bolt12) ==
    [description |-> <<"description", bolt12>>,
     denomination |-> "msats",
     amount |-> IF bolt12 \in {"lno1b"} THEN Undefined ELSE Def(Msat(7000)),
     issuer |-> Def("issuer")]

\* the kind of request a well-formed string encodes
Bolt12Type(bolt12) == IF bolt12 \in {"lno1a", "lno1b"} THEN "pay" ELSE "withdraw"

\* bolt12ToOffer(bolt12, id): decodes and labels the offer with the given id
bolt12ToOffer(bolt12, id) ==
    [id |-> id,
     type |-> Bolt12Type(bolt12),
     description |-> decodeBolt12(bolt12).description,
     denomination |-> decodeBolt12(bolt12).denomination,
     amount |-> decodeBolt12(bolt12).amount,
     issuer |-> decodeBolt12(bolt12).issuer]

(***************************************************************************)
(* The node: what each RPC method may answer.                              *)
(***************************************************************************)
RpcErrors == {[code |-> 0 - 1, message |-> "rpc failed"]}

OfferSummary(id, bolt12, active, single_use, used) ==
    [offer_id |-> id, bolt12 |-> bolt12, active |-> active, single_use |-> single_use,
     used |-> used, label |-> <<"label", id>>]

InvoiceRequestSummary(id, bolt12, active, single_use, used) ==
    [invreq_id |-> id, bolt12 |-> bolt12, active |-> active, single_use |-> single_use,
     used |-> used, label |-> <<"label", id>>]

O1 == OfferSummary("o1", "lno1a", TRUE, FALSE, FALSE)
O2 == OfferSummary("o2", "lno1b", FALSE, TRUE, TRUE)
OBad == OfferSummary("o3", "garbage", TRUE, FALSE, FALSE)
W1 == InvoiceRequestSummary("w1", "lnr1a", TRUE, TRUE, FALSE)
W2 == InvoiceRequestSummary("w2", "lnr1b", FALSE, TRUE, TRUE)
WBad == InvoiceRequestSummary("w3", "garbage", TRUE, TRUE, FALSE)

ListedOffers == {<<>>, <<O1>>, <<O1, O2>>, <<O2, O1>>, <<OBad, O1>>}

ListedInvoiceRequests == {<<>>, <<W1>>, <<W1, W2>>, <<W2, W1>>, <<W1, WBad>>}

NodeFlags ==
    {[active |-> TRUE, single_use |-> FALSE, used |-> FALSE],
     [active |-> FALSE, single_use |-> TRUE, used |-> TRUE]}

SendInvoiceResponses ==
    {[payment_hash |-> "hash", payment_preimage |-> "preimage", status |-> "paid",
      bolt12 |-> "lni1", expires_at |-> 2000, paid_at |-> paid_at,
      amount_received_msat |-> received, pay_index |-> 1] :
        paid_at \in {Undefined, Def(999)},
        received \in {Undefined, Def(MsatSuffixed(3000))}}

PayResponses ==
    {[payment_hash |-> "hash", payment_preimage |-> "preimage", created_at |-> 990,
      amount_msat |-> p[1], amount_sent_msat |-> p[2], status |-> "complete",
      destination |-> "node"] :
        p \in {<<Msat(100000), Msat(101000)>>, <<MsatSuffixed(2000), MsatSuffixed(2000)>>,
               <<Msat(1000), MsatSuffixed(2500)>>, <<Msat(3000), Msat(1000)>>}}

Methods ==
    {"listoffers", "listinvoicerequests", "offer", "disableoffer", "invoicerequest",
     "disableinvoicerequest", "fetchinvoice", "sendinvoice", "pay"}

\* the results the node may give for a method
Replies(method) ==
    CASE method = "listoffers" -> {[offers |-> l] : l \in ListedOffers}
      [] method = "listinvoicerequests" ->
            {[invoicerequests |-> l] : l \in ListedInvoiceRequests}
      [] method = "offer" ->
            {[offer_id |-> "o9", bolt12 |-> "lno1a", used |-> f.used,
              single_use |-> f.single_use, active |-> f.active] : f \in NodeFlags}
      [] method = "invoicerequest" ->
            {[invreq_id |-> "w9", bolt12 |-> "lnr1a", used |-> f.used,
              single_use |-> f.single_use, active |-> f.active] : f \in NodeFlags}
      [] method = "fetchinvoice" -> {[invoice |-> "lni1"]}
      [] method = "sendinvoice" -> SendInvoiceResponses
      [] method = "pay" -> PayResponses
      [] OTHER -> {[ok |-> TRUE]}

(***************************************************************************)
(* Connections and the options callers pass.                               *)
(***************************************************************************)
\* which Offers class serves a connection
Backend(id) ==
    CASE id = "wallet1" -> "wallet"          \* src/lib/wallets/coreln/offers.ts
      [] id = "conn1" -> "connection"      \* connections backend with connectionId and errors$
      [] OTHER -> "legacy"              \* src/lib/connections/coreln/offers.ts

\* connection.info.id, the node the connection talks to
NodeId(id) == <<"node", id>>

Operations ==
    {"get", "createPay", "disablePay", "createWithdraw", "disableWithdraw",
     "fetchInvoice", "sendInvoice", "payInvoice"}

\* the legacy and connection backends have no payInvoice
OperationsOf(backend) ==
    IF backend = "wallet" THEN Operations ELSE Operations \ {"payInvoice"}

AmountsGiven == {Undefined, Def(Sats(0)), Def(Sats(5))}

ExpiriesGiven == {Undefined, Def(60)}

\* the offer ids and invoice request ids a caller may pass to the disable operations
IdsGiven == {"abc", "o1"}

EmptyOptions ==
    [amount |-> Undefined, description |-> "description", issuer |-> Def("issuer"),
     label |-> "label", quantityMax |-> Def(3), expiry |-> Undefined,
     singleUse |-> Def(TRUE), offer |-> "lno1a", quantity |-> Def(1),
     timeout |-> Def(30), payerNote |-> Def("note"), id |-> "abc", bolt12 |-> "lni1"]

\* the arguments a caller may pass to an operation
OptionsOf(op) ==
    CASE op \in {"createPay"} ->
            {[EmptyOptions EXCEPT !.amount = a, !.expiry = e] :
                a \in AmountsGiven, e \in ExpiriesGiven}
      [] op = "createWithdraw" ->
            {[EmptyOptions EXCEPT !.amount = Def(Sats(5)), !.expiry = e] : e \in ExpiriesGiven}
      [] op \in {"fetchInvoice", "sendInvoice"} ->
            {[EmptyOptions EXCEPT !.amount = a] : a \in AmountsGiven}
      [] op \in {"disablePay", "disableWithdraw"} ->
            {[EmptyOptions EXCEPT !.id = i] : i \in IdsGiven}
      [] OTHER -> {EmptyOptions}

Request(method, params) == [method |-> method, params |-> params]

\* mutant: the offer id is sent under the key id
DisableOfferParamsIdKey(offerId) == [id |-> offerId]

\* params: { offer_id: offerId }
DisableOfferParams(offerId) == [offer_id |-> offerId]

\* params: { invreq_id: invoiceRequestId }
DisableInvoiceRequestParams(invoiceRequestId) == [invreq_id |-> invoiceRequestId]

NoLocals == [absoluteExpiry |-> Undefined, createdAt |-> 0]

Returned(value) == [ok |-> TRUE, value |-> value]

Thrown(error) == [ok |-> FALSE, error |-> error]

\* invoiceStatusToPaymentStatus(status)
invoiceStatusToPaymentStatus(status) ==
    CASE status = "paid" -> "complete"
      [] status = "unpaid" -> "pending"
      [] OTHER -> "expired"

\* createRandomHex()
createRandomHex == "a1b2"

\* mutant: the completion time is always the client's
CompletedAtAlwaysNow(paid_at, now) == now

\* paid_at ? paid_at : nowSeconds()
CompletedAt(paid_at, now) == IF TruthyNum(paid_at) THEN Val(paid_at) ELSE now

(***************************************************************************)
(* Offers of src/lib/wallets/coreln/offers.ts (amounts in sats).           *)
(***************************************************************************)
\* expiry && nowSeconds() + expiry
WalletAbsoluteExpiry(expiry, now) ==
    IF TruthyNum(expiry) THEN Def(now + Val(expiry)) ELSE expiry

WalletLocals(op, options, now) ==
    CASE op = "createPay" ->
            [NoLocals EXCEPT !.absoluteExpiry = WalletAbsoluteExpiry(options.expiry, now)]
      [] op = "createWithdraw" ->
            [NoLocals EXCEPT !.absoluteExpiry = WalletAbsoluteExpiry(options.expiry, now)]
      [] op = "sendInvoice" -> [NoLocals EXCEPT !.createdAt = now]
      [] OTHER -> NoLocals

WalletCreatePayParams(options, locals) ==
    [amount |-> IF TruthyAmount(options.amount)
                THEN Def(satsToMsats(Val(options.amount))) ELSE Def(AnyAmount),
     description |-> options.description,
     issuer |-> options.issuer,
     label |-> options.label,
     quantity_max |-> options.quantityMax,
     absolute_expiry |-> locals.absoluteExpiry,
     single_use |-> options.singleUse]

\* mutant: a created offer is taken to be active
WalletCreatePayResultActiveAssumed(options, locals, result, walletId) ==
    [id |-> result.offer_id,
     bolt12 |-> result.bolt12,
     type |-> "pay",
     denomination |-> "sats",
     amount |-> options.amount,
     description |-> options.description,
     walletId |-> walletId,
     used |-> result.used,
     singleUse |-> result.single_use,
     active |-> TRUE,
     label |-> options.label,
     expiry |-> locals.absoluteExpiry,
     issuer |-> options.issuer,
     quantityMax |-> options.quantityMax]

WalletCreatePayResult(options, locals, result, walletId) ==
    [id |-> result.offer_id,
     bolt12 |-> result.bolt12,
     type |-> "pay",
     denomination |-> "sats",
     amount |-> options.amount,
     description |-> options.description,
     walletId |-> walletId,
     used |-> result.used,
     singleUse |-> result.single_use,
     active |-> result.active,
     label |-> options.label,
     expiry |-> locals.absoluteExpiry,
     issuer |-> options.issuer,
     quantityMax |-> options.quantityMax]

WalletCreateWithdrawParams(options, locals) ==
    [amount |-> Def(satsToMsats(Val(options.amount))),
     description |-> options.description,
     issuer |-> options.issuer,
     label |-> options.label,
     absolute_expiry |-> locals.absoluteExpiry,
     single_use |-> options.singleUse]

WalletCreateWithdrawResult(options, locals, result, walletId) ==
    [id |-> result.invreq_id,
     bolt12 |-> result.bolt12,
     type |-> "withdraw",
     denomination |-> "sats",
     amount |-> options.amount,
     description |-> options.description,
     walletId |-> walletId,
     used |-> result.used,
     singleUse |-> result.single_use,
     active |-> result.active,
     label |-> options.label,
     expiry |-> options.expiry,
     issuer |-> options.issuer]

WalletFetchInvoiceParams(options) ==
    [offer |-> options.offer,
     amount_msat |-> IF TruthyAmount(options.amount)
                     THEN Def(satsToMsats(Val(options.amount))) ELSE options.amount,
     quantity |-> options.quantity,
     timeout |-> options.timeout,
     payer_note |-> options.payerNote]

\* mutant: the requested amount is kept in sats
WalletAmountMsatUnconverted(options) == options.amount

\* amountMsat = amount && satsToMsats(amount)
WalletAmountMsat(options) ==
    IF TruthyAmount(options.amount)
    THEN Def(satsToMsats(Val(options.amount))) ELSE options.amount

\* mutant: the amount slot is always sent, filled or not
WalletSendInvoiceParamsAlwaysFive(options) ==
    <<Def(options.offer), Def(options.label), WalletAmountMsat(options),
      options.timeout, options.quantity>>

WalletSendInvoiceParams(options) ==
    IF TruthyAmount(WalletAmountMsat(options))
    THEN <<Def(options.offer), Def(options.label), WalletAmountMsat(options),
           options.timeout, options.quantity>>
    ELSE <<Def(options.offer), Def(options.label), options.timeout, options.quantity>>

WalletSendInvoiceResult(options, locals, result, now, walletId) ==
    LET formatted ==
            formatMsatString(OrAmount(result.amount_received_msat, WalletAmountMsat(options)))
    IN  IF ~formatted.ok
        THEN Thrown(formatted.error)
        ELSE Returned(
               [id |-> options.label,
                hash |-> result.payment_hash,
                preimage |-> result.payment_preimage,
                type |-> "bolt12",
                direction |-> "receive",
                amount |-> msatsToSats(formatted.value),
                completedAt |-> CompletedAt(result.paid_at, now),
                expiresAt |-> result.expires_at,
                createdAt |-> locals.createdAt,
                fee |-> Undefined,
                status |-> invoiceStatusToPaymentStatus(result.status),
                request |-> result.bolt12,
                payIndex |-> result.pay_index,
                walletId |-> walletId])

\* mutant: the fee is taken as amount_msat - amount_sent_msat
WalletPayInvoiceResultFeeReversed(options, result, now, walletId) ==
    LET amount == formatMsatString(Def(result.amount_msat))
        sent == formatMsatString(Def(result.amount_sent_msat))
    IN  Returned(
          [id |-> createRandomHex,
           hash |-> result.payment_hash,
           preimage |-> result.payment_preimage,
           nodeId |-> result.destination,
           type |-> "bolt12",
           direction |-> "send",
           amount |-> msatsToSats(amount.value),
           completedAt |-> now,
           expiresAt |-> Undefined,
           createdAt |-> result.created_at,
           fee |-> msatsToSats(BigMinus(amount.value, sent.value)),
           status |-> result.status,
           request |-> options.bolt12,
           walletId |-> walletId])

WalletPayInvoiceResult(options, result, now, walletId) ==
    LET amount == formatMsatString(Def(result.amount_msat))
        sent == formatMsatString(Def(result.amount_sent_msat))
    IN  Returned(
          [id |-> createRandomHex,
           hash |-> result.payment_hash,
           preimage |-> result.payment_preimage,
           nodeId |-> result.destination,
           type |-> "bolt12",
           direction |-> "send",
           amount |-> msatsToSats(amount.value),
           completedAt |-> now,
           expiresAt |-> Undefined,
           createdAt |-> result.created_at,
           fee |-> msatsToSats(BigMinus(sent.value, amount.value)),
           status |-> result.status,
           request |-> options.bolt12,
           walletId |-> walletId])

\* the object get() builds for a listed pay-offer once its bolt12 is decoded
WalletFormatOffer(offer, walletId) ==
    [id |-> Field(offer, "offer_id"),
     active |-> offer.active,
     singleUse |-> offer.single_use,
     used |-> offer.used,
     bolt12 |-> offer.bolt12,
     label |-> offer.label,
     walletId |-> walletId,
     description |-> decodeBolt12(offer.bolt12).description,
     type |-> "pay",
     denomination |-> decodeBolt12(offer.bolt12).denomination,
     amount |-> decodeBolt12(offer.bolt12).amount,
     issuer |-> decodeBolt12(offer.bolt12).issuer]

\* the object get() builds for a listed invoice request
WalletFormatInvoiceRequest(offer, walletId) ==
    [id |-> Field(offer, "invreq_id"),
     active |-> offer.active,
     singleUse |-> offer.single_use,
     used |-> offer.used,
     bolt12 |-> offer.bolt12,
     label |-> offer.label,
     walletId |-> walletId,
     description |-> decodeBolt12(offer.bolt12).description,
     type |-> "withdraw",
     denomination |-> decodeBolt12(offer.bolt12).denomination,
     amount |-> decodeBolt12(offer.bolt12).amount,
     issuer |-> decodeBolt12(offer.bolt12).issuer]

\* mutant: the invoice requests are put first
WalletGetResultRequestsFirst(formattedOffers, formattedInvoiceRequests) ==
    formattedInvoiceRequests \o formattedOffers

\* formattedOffers.concat(formattedInvoiceRequests)
WalletGetResult(formattedOffers, formattedInvoiceRequests) ==
    formattedOffers \o formattedInvoiceRequests

WalletContext(op) ==
    CASE op = "get" -> "get (offers)"
      [] op = "createPay" -> "createPay (offers)"
      [] op = "disablePay" -> "disablePay (offers)"
      [] op = "createWithdraw" -> "createWithdraw (offers)"
      [] op = "disableWithdraw" -> "disableWithdraw (offers)"
      [] op = "fetchInvoice" -> "fetchInvoice (offers)"
      [] op = "sendInvoice" -> "sendInvoice (offers)"
      [] OTHER -> "sendInvoice (offers)"    \* payInvoice, line 338

(***************************************************************************)
(* Offers of the connections backend that reports to errors$ (amounts in   *)
(* msats, passed through unconverted).                                     *)
(***************************************************************************)
ConnCreatePayParams(options) ==
    [amount |-> options.amount,
     description |-> options.description,
     issuer |-> options.issuer,
     label |-> options.label,
     quantity_max |-> options.quantityMax,
     absolute_expiry |-> options.expiry,
     single_use |-> options.singleUse]

ConnCreatePayResult(options, result, id) ==
    [id |-> result.offer_id,
     bolt12 |-> result.bolt12,
     type |-> "pay",
     denomination |-> "msats",
     amount |-> options.amount,
     description |-> options.description,
     nodeId |-> NodeId(id),
     connectionId |-> id,
     used |-> result.used,
     singleUse |-> result.single_use,
     active |-> result.active,
     label |-> options.label,
     expiry |-> options.expiry,
     issuer |-> options.issuer,
     quantityMax |-> options.quantityMax]

ConnCreateWithdrawParams(options) ==
    [amount |-> options.amount,
     description |-> options.description,
     issuer |-> options.issuer,
     label |-> options.label,
     absolute_expiry |-> options.expiry,
     single_use |-> options.singleUse]

ConnCreateWithdrawResult(options, result, id) ==
    [id |-> result.invreq_id,
     bolt12 |-> result.bolt12,
     type |-> "withdraw",
     denomination |-> "msats",
     amount |-> options.amount,
     description |-> options.description,
     nodeId |-> NodeId(id),
     connectionId |-> id,
     used |-> result.used,
     singleUse |-> result.single_use,
     active |-> result.active,
     label |-> options.label,
     expiry |-> options.expiry,
     issuer |-> options.issuer]

ConnFetchInvoiceParams(options) ==
    [offer |-> options.offer,
     amount_msat |-> options.amount,
     quantity |-> options.quantity,
     timeout |-> options.timeout,
     payer_note |-> options.payerNote]

ConnSendInvoiceParams(options) ==
    IF TruthyAmount(options.amount)
    THEN <<Def(options.offer), Def(options.label), options.amount,
           options.timeout, options.quantity>>
    ELSE <<Def(options.offer), Def(options.label), options.timeout, options.quantity>>

ConnSendInvoiceResult(options, locals, result, now, id) ==
    LET stripped == stripMsatSuffix(OrAmount(result.amount_received_msat, options.amount))
    IN  IF ~stripped.ok
        THEN Thrown(stripped.error)
        ELSE Returned(
               [id |-> options.label,
                hash |-> result.payment_hash,
                preimage |-> result.payment_preimage,
                type |-> "bolt12",
                direction |-> "receive",
                nodeId |-> NodeId(id),
                value |-> stripped.value,
                completedAt |-> CompletedAt(result.paid_at, now),
                expiresAt |-> result.expires_at,
                startedAt |-> locals.createdAt,
                fee |-> Undefined,
                status |-> invoiceStatusToPaymentStatus(result.status),
                request |-> result.bolt12,
                payIndex |-> result.pay_index,
                connectionId |-> id])

\* the object get() builds for a listed entry once bolt12ToOffer has resolved
ConnFormatOffer(offer) ==
    LET formattedOffer ==
            bolt12ToOffer(offer.bolt12, OrStr(Field(offer, "offer_id"), Field(offer, "invreq_id")))
    IN  [id |-> formattedOffer.id,
         type |-> formattedOffer.type,
         description |-> formattedOffer.description,
         denomination |-> formattedOffer.denomination,
         amount |-> formattedOffer.amount,
         issuer |-> formattedOffer.issuer,
         active |-> offer.active,
         single_use |-> offer.single_use,
         used |-> offer.used,
         bolt12 |-> offer.bolt12,
         label |-> offer.label]

\* [...offers, ...invoicerequests]
ConnListed(offers, invoicerequests) == offers \o invoicerequests

ConnContext(op) ==
    CASE op = "get" -> "get (offers)"
      [] op = "createPay" -> "createPay (offers)"
      [] op = "disablePay" -> "disablePay (offers)"
      [] op = "createWithdraw" -> "createWithdraw (offers)"
      [] op = "disableWithdraw" -> "disableWithdraw (offers)"
      [] op = "fetchInvoice" -> "fetchInvoice (offers)"
      [] OTHER -> "sendInvoice (offers)"

(***************************************************************************)
(* Offers of src/lib/connections/coreln/offers.ts (legacy): the same       *)
(* requests; results carry no connectionId; errors are not pushed.         *)
(***************************************************************************)
LegacyCreatePayResult(options, result, id) ==
    [id |-> result.offer_id,
     bolt12 |-> result.bolt12,
     type |-> "pay",
     denomination |-> "msats",
     amount |-> options.amount,
     description |-> options.description,
     nodeId |-> NodeId(id),
     used |-> result.used,
     singleUse |-> result.single_use,
     active |-> result.active,
     label |-> options.label,
     expiry |-> options.expiry,
     issuer |-> options.issuer,
     quantityMax |-> options.quantityMax]

LegacyCreateWithdrawResult(options, result, id) ==
    [id |-> result.invreq_id,
     bolt12 |-> result.bolt12,
     type |-> "withdraw",
     denomination |-> "msats",
     amount |-> options.amount,
     description |-> options.description,
     nodeId |-> NodeId(id),
     used |-> result.used,
     singleUse |-> result.single_use,
     active |-> result.active,
     label |-> options.label,
     expiry |-> options.expiry,
     issuer |-> options.issuer]

\* formatMsat(raw) of the legacy utilities
formatMsat(raw) == formatMsatString(raw)

LegacySendInvoiceResult(options, locals, result, now, id) ==
    LET formatted == formatMsat(OrAmount(result.amount_received_msat, options.amount))
    IN  IF ~formatted.ok
        THEN Thrown(formatted.error)
        ELSE Returned(
               [id |-> options.label,
                hash |-> result.payment_hash,
                preimage |-> result.payment_preimage,
                type |-> "bolt12",
                direction |-> "receive",
                value |-> formatted.value,
                completedAt |-> CompletedAt(result.paid_at, now),
                expiresAt |-> result.expires_at,
                startedAt |-> locals.createdAt,
                fee |-> Undefined,
                status |-> invoiceStatusToPaymentStatus(result.status),
                invoice |-> result.bolt12,
                payIndex |-> result.pay_index,
                nodeId |-> NodeId(id)])

LegacyContext(op) ==
    CASE op = "get" -> "get (offers)"
      [] op = "createPay" -> "createPay (offers)"
      [] op = "disablePay" -> "disablePay (offers)"
      [] op = "createWithdraw" -> "createWithdraw (offers)"
      [] op = "disableWithdraw" -> "disableWithdraw (offers)"
      [] op = "fetchInvoice" -> "fetchInvoice (offers)"
      [] OTHER -> "sendInvoice (offers)"

(***************************************************************************)
(* The operations as steps: the requests issued up to the first await, the *)
(* rest of the try block once the awaited call has resolved, and the catch *)
(* block.                                                                  *)
(***************************************************************************)
\* handleError(error, context, connectionId): the structured connection error
handleError(error, context, connectionId) ==
    AppError("connection_error", context, connectionId, error)

WalletRequests(op, options, locals) ==
    CASE op = "get" ->
            <<Request("listoffers", Undefined), Request("listinvoicerequests", Undefined)>>
      [] op = "createPay" -> <<Request("offer", WalletCreatePayParams(options, locals))>>
      [] op = "disablePay" -> <<Request("disableoffer", DisableOfferParams(options.id))>>
      [] op = "createWithdraw" ->
            <<Request("invoicerequest", WalletCreateWithdrawParams(options, locals))>>
      [] op = "disableWithdraw" ->
            <<Request("disableinvoicerequest", DisableInvoiceRequestParams(options.id))>>
      [] op = "fetchInvoice" -> <<Request("fetchinvoice", WalletFetchInvoiceParams(options))>>
      [] op = "sendInvoice" -> <<Request("sendinvoice", WalletSendInvoiceParams(options))>>
      [] OTHER -> <<Request("pay", <<Def(options.bolt12)>>)>>

ConnRequests(op, options) ==
    CASE op = "get" ->
            <<Request("listoffers", Undefined), Request("listinvoicerequests", Undefined)>>
      [] op = "createPay" -> <<Request("offer", ConnCreatePayParams(options))>>
      [] op = "disablePay" -> <<Request("disableoffer", DisableOfferParams(options.id))>>
      [] op = "createWithdraw" ->
            <<Request("invoicerequest", ConnCreateWithdrawParams(options))>>
      [] op = "disableWithdraw" ->
            <<Request("disableinvoicerequest", DisableInvoiceRequestParams(options.id))>>
      [] op = "fetchInvoice" -> <<Request("fetchinvoice", ConnFetchInvoiceParams(options))>>
      [] OTHER -> <<Request("sendinvoice", ConnSendInvoiceParams(options))>>

\* the legacy class issues the same requests
LegacyRequests(op, options) == ConnRequests(op, options)

\* the rest of the try block of a single-call operation
WalletComplete(op, options, locals, result, now, id) ==
    CASE op = "createPay" -> Returned(WalletCreatePayResult(options, locals, result, id))
      [] op = "createWithdraw" ->
            Returned(WalletCreateWithdrawResult(options, locals, result, id))
      [] op = "fetchInvoice" -> Returned(result.invoice)
      [] op = "sendInvoice" -> WalletSendInvoiceResult(options, locals, result, now, id)
      [] op = "payInvoice" -> WalletPayInvoiceResult(options, result, now, id)
      [] OTHER -> Returned(Undefined)

ConnComplete(op, options, locals, result, now, id) ==
    CASE op = "createPay" -> Returned(ConnCreatePayResult(options, result, id))
      [] op = "createWithdraw" -> Returned(ConnCreateWithdrawResult(options, result, id))
      [] op = "fetchInvoice" -> Returned(result.invoice)
      [] op = "sendInvoice" -> ConnSendInvoiceResult(options, locals, result, now, id)
      [] OTHER -> Returned(Undefined)

LegacyComplete(op, options, locals, result, now, id) ==
    CASE op = "createPay" -> Returned(LegacyCreatePayResult(options, result, id))
      [] op = "createWithdraw" -> Returned(LegacyCreateWithdrawResult(options, result, id))
      [] op = "fetchInvoice" -> Returned(result.invoice)
      [] op = "sendInvoice" -> LegacySendInvoiceResult(options, locals, result, now, id)
      [] OTHER -> Returned(Undefined)

\* what a step leaves behind: the invocation, and the error it pushed on errors$ (if any)
Effect(c, push) == [call |-> c, push |-> push]

Succeed(c, value) == Effect([c EXCEPT !.pc = "resolved", !.value = value], Undefined)

\* a rejection no catch block of the operation sees
Escape(c, error) == Effect([c EXCEPT !.pc = "rejected", !.error = Def(error)], Undefined)

\* catch block: handleError, connection.errors$.next, throw
WalletCatch(c, error, id) ==
    LET connectionError == handleError(error, WalletContext(c.op), Def(id)) IN
    Effect([c EXCEPT !.pc = "rejected", !.error = Def(connectionError),
                      !.pushed = Def(connectionError)],
           Def(connectionError))

ConnCatch(c, error, id) ==
    LET connectionError == handleError(error, ConnContext(c.op), Def(id)) IN
    Effect([c EXCEPT !.pc = "rejected", !.error = Def(connectionError),
                      !.pushed = Def(connectionError)],
           Def(connectionError))

\* catch block of the legacy class: throw handleError(error, context)
LegacyCatch(c, error, id) ==
    Effect([c EXCEPT !.pc = "rejected",
                      !.error = Def(handleError(error, LegacyContext(c.op), Undefined))],
           Undefined)

\* mutant: the catch block issues the failed call once more instead of rejecting
CatchRetrying(c, error, id) ==
    IF Len(c.rpcs) < 3
    THEN Effect([c EXCEPT !.rpcs = Append(@, [request |-> c.rpcs[1].request,
                                               state |-> "pending", reply |-> Undefined])],
                Undefined)
    ELSE LegacyCatch(c, error, id)

Catch(c, error, id) ==
    CASE Backend(id) = "wallet" -> WalletCatch(c, error, id)
      [] Backend(id) = "connection" -> ConnCatch(c, error, id)
      [] OTHER -> LegacyCatch(c, error, id)

Range(s) == {s[i] : i \in DOMAIN s}

\* Promise.all of the decodes: the values by index, whatever order they settled in
PromiseAll(decodes, settled) == [i \in 1..Len(decodes) |-> Val(decodes[i].value)]

Pending(entries) == [i \in 1..Len(entries) |-> [entry |-> entries[i], value |-> Undefined]]

Decoding(c, phase, entries) ==
    Effect([c EXCEPT !.pc = "decoding", !.phase = phase, !.decodes = Pending(entries),
                      !.settled = <<>>],
           Undefined)

\* wallets get(): second Promise.all, over the invoice requests
WalletDecodeInvoiceRequests(c, formattedOffers) ==
    LET invoicerequests == c.rpcs[2].reply.invoicerequests IN
    IF invoicerequests = <<>>
    THEN Succeed(c, WalletGetResult(formattedOffers, <<>>))
    ELSE Decoding([c EXCEPT !.formattedOffers = formattedOffers], "invoicerequests",
                  invoicerequests)

\* wallets get(): first Promise.all, over the pay-offers
WalletDecodeOffers(c) ==
    LET offers == c.rpcs[1].reply.offers IN
    IF offers = <<>>
    THEN WalletDecodeInvoiceRequests(c, <<>>)
    ELSE Decoding(c, "offers", offers)

\* connections get(): one map over [...offers, ...invoicerequests]
ConnDecodeAll(c) ==
    LET listed == ConnListed(c.rpcs[1].reply.offers, c.rpcs[2].reply.invoicerequests) IN
    IF listed = <<>>
    THEN Succeed(c, <<>>)
    ELSE Decoding(c, "all", listed)

\* get() once both listing calls have resolved
AfterListing(c, id) ==
    IF Backend(id) = "wallet" THEN WalletDecodeOffers(c) ELSE ConnDecodeAll(c)

\* get() once every decode of the running Promise.all has resolved
AfterDecoding(c, id) ==
    LET values == PromiseAll(c.decodes, c.settled) IN
    CASE c.phase = "offers" -> WalletDecodeInvoiceRequests(c, values)
      [] c.phase = "invoicerequests" -> Succeed(c, WalletGetResult(c.formattedOffers, values))
      [] OTHER -> Succeed(c, values)

\* the object a decode callback of get() returns
Formatted(c, entry, id) ==
    CASE c.phase = "offers" -> WalletFormatOffer(entry, id)
      [] c.phase = "invoicerequests" -> WalletFormatInvoiceRequest(entry, id)
      [] OTHER -> ConnFormatOffer(entry)

\* mutant: a failed decode makes get() return an empty list
DecodeFailedReturnsEmpty(c, error, id) == Succeed(c, <<>>)

\* a rejected decode: wallets get() awaits inside the try block; the connections
\* classes return the Promise.all unawaited, so their catch block never runs
DecodeFailed(c, error, id) ==
    IF Backend(id) = "wallet" THEN WalletCatch(c, error, id) ELSE Escape(c, error)

Complete(c, result, now, id) ==
    CASE Backend(id) = "wallet" -> WalletComplete(c.op, c.options, c.locals, result, now, id)
      [] Backend(id) = "connection" -> ConnComplete(c.op, c.options, c.locals, result, now, id)
      [] OTHER -> LegacyComplete(c.op, c.options, c.locals, result, now, id)

Requests(backend, op, options, locals) ==
    CASE backend = "wallet" -> WalletRequests(op, options, locals)
      [] backend = "connection" -> ConnRequests(op, options)
      [] OTHER -> LegacyRequests(op, options)

\* const createdAt = nowSeconds() of sendInvoice
ConnLocals(op, options, now) ==
    IF op = "sendInvoice" THEN [NoLocals EXCEPT !.createdAt = now] ELSE NoLocals

Locals(backend, op, options, now) ==
    IF backend = "wallet" THEN WalletLocals(op, options, now) ELSE ConnLocals(op, options, now)

Idle == [pc |-> "idle"]

InitChannel ==
    /\ connectionErrors = EmptyRecord
    /\ emitted = EmptyRecord
    /\ ignored = 0
    /\ conn = "wallet1"
    /\ clock = 0
    /\ call = Idle
    /\ invoked = 0
    /\ held = <<>>
    /\ second = Idle
    /\ allLogs = <<>>
    /\ logged = <<>>

\* A component emits a connection error that names its connection.
EmitConnectionError(id, context) ==
    /\ Len(Pushed(id)) < MaxPush
    /\ LET value == AppError("connection_error", context, Def(id), [serial |-> Len(Pushed(id)) + 1]) IN
       /\ connectionErrors' = ErrorsNext(connectionErrors, value)
       /\ emitted' = LogNext(emitted, value)
    /\ UNCHANGED <<held, second, allLogs, logged, ignored, conn, clock, call, invoked>>

\* A component emits an error that is no connection error, or names no connection.
EmitOtherError(key, connectionId) ==
    /\ ignored < MaxIgnored
    /\ ~Recorded(AppError(key, "other", connectionId, [serial |-> 0]))
    /\ LET value == AppError(key, "other", connectionId, [serial |-> 0]) IN
       /\ connectionErrors' = ErrorsNext(connectionErrors, value)
       /\ emitted' = LogNext(emitted, value)
    /\ ignored' = ignored + 1
    /\ UNCHANGED <<held, second, allLogs, logged, conn, clock, call, invoked>>

NextChannel ==
    \/ \E id \in {"wallet1", "conn1"}, context \in {"get (offers)"} : EmitConnectionError(id, context)
    \/ \E key \in ErrorKeys, connectionId \in {Undefined, Def("wallet1")} :
          EmitOtherError(key, connectionId)

SpecChannel == InitChannel /\ [][NextChannel]_vars

(***************************************************************************)
(* The operations specification: one Offers instance on one connection.    *)
(***************************************************************************)
Init ==
    /\ connectionErrors = EmptyRecord
    /\ emitted = EmptyRecord
    /\ ignored = 0
    /\ conn \in ConnectionIds
    /\ clock = 1000
    /\ call = Idle
    /\ invoked = 0
    /\ held = <<>>
    /\ second = Idle
    /\ allLogs = <<>>
    /\ logged = <<>>

\* apply a step's effect: the invocation moves on and its push reaches the scan
Apply(effect) ==
    /\ call' = effect.call
    /\ connectionErrors' =
          IF IsDef(effect.push) THEN ErrorsNext(connectionErrors, Val(effect.push))
          ELSE connectionErrors

\* a second passes
Tick ==
    /\ clock < 1000 + MaxTicks
    /\ clock' = clock + 1
    /\ UNCHANGED <<held, second, allLogs, logged, connectionErrors, emitted, ignored, conn, call, invoked>>

\* another component of the application reports an error of this connection
PushOther ==
    /\ connectionErrors' =
          ErrorsNext(connectionErrors,
                     AppError("connection_error", "other", Def(conn), [name |-> "other"]))
    /\ UNCHANGED <<held, second, allLogs, logged, emitted, ignored, conn, clock, call, invoked>>

\* an invocation that has run up to its first await
Invocation(op, options, now, id) ==
    LET locals == Locals(Backend(id), op, options, now)
        requests == Requests(Backend(id), op, options, locals)
    IN  [pc |-> IF op = "get" THEN "listing" ELSE "rpc",
         op |-> op,
         options |-> options,
         locals |-> locals,
         rpcs |-> [i \in 1..Len(requests) |->
                     [request |-> requests[i], state |-> "pending", reply |-> Undefined]],
         phase |-> "",
         decodes |-> <<>>,
         settled |-> <<>>,
         formattedOffers |-> <<>>,
         value |-> Undefined,
         error |-> Undefined,
         pushed |-> Undefined]

\* a caller invokes an operation: it runs up to its first await
Invoke(op, options) ==
    /\ call.pc = "idle"
    /\ invoked < MaxInvocations
    /\ op \in OperationsOf(Backend(conn))
    /\ call' = Invocation(op, options, clock, conn)
    /\ invoked' = invoked + 1
    /\ UNCHANGED <<held, second, allLogs, logged, connectionErrors, emitted, ignored, conn, clock>>

\* the node answers call i and the operation resumes
RpcResolve(i, reply) ==
    /\ call.pc \in {"rpc", "listing"}
    /\ i \in DOMAIN call.rpcs
    /\ call.rpcs[i].state = "pending"
    /\ reply \in Replies(call.rpcs[i].request.method)
    /\ LET c == [call EXCEPT !.rpcs[i].state = "resolved", !.rpcs[i].reply = reply]
           done == \A j \in DOMAIN c.rpcs : c.rpcs[j].state = "resolved"
       IN  IF call.pc = "rpc"
           THEN LET completed == Complete(c, reply, clock, conn) IN
                IF completed.ok
                THEN Apply(Succeed(c, completed.value))
                ELSE Apply(Catch(c, completed.error, conn))
           ELSE IF done THEN Apply(AfterListing(c, conn)) ELSE Apply(Effect(c, Undefined))
    /\ UNCHANGED <<held, second, allLogs, logged, emitted, ignored, conn, clock, invoked>>

\* call i fails (transport or node error) and the catch block runs
RpcReject(i, error) ==
    /\ call.pc \in {"rpc", "listing"}
    /\ i \in DOMAIN call.rpcs
    /\ call.rpcs[i].state = "pending"
    /\ Apply(Catch([call EXCEPT !.rpcs[i].state = "rejected"], error, conn))
    /\ UNCHANGED <<held, second, allLogs, logged, emitted, ignored, conn, clock, invoked>>

\* the other listing call of get() fails after get() has rejected: the
\* Promise.all of the listing calls is settled already and ignores it
RpcRejectLate(i, error) ==
    /\ call.pc = "rejected"
    /\ i \in DOMAIN call.rpcs
    /\ call.rpcs[i].state = "pending"
    /\ Apply(Effect([call EXCEPT !.rpcs[i].state = "rejected"], Undefined))
    /\ UNCHANGED <<held, second, allLogs, logged, emitted, ignored, conn, clock, invoked>>

\* the decode of listed entry i settles
DecodeSettle(i) ==
    /\ call.pc = "decoding"
    /\ i \in DOMAIN call.decodes
    /\ i \notin Range(call.settled)
    /\ LET entry == call.decodes[i].entry
           c == [call EXCEPT !.settled = Append(@, i),
                             !.decodes[i].value = Def(Formatted(call, entry, conn))]
       IN  IF ~WellFormed(entry.bolt12)
           THEN Apply(DecodeFailed([call EXCEPT !.settled = Append(@, i)], DecodeError, conn))
           ELSE IF Len(c.settled) = Len(c.decodes)
                THEN Apply(AfterDecoding(c, conn))
                ELSE Apply(Effect(c, Undefined))
    /\ UNCHANGED <<held, second, allLogs, logged, emitted, ignored, conn, clock, invoked>>

\* the caller has taken the outcome; the instance is free for the next invocation
Return ==
    /\ call.pc \in {"resolved", "rejected"}
    /\ call' = Idle
    /\ UNCHANGED <<held, second, allLogs, logged, connectionErrors, emitted, ignored, conn, clock, invoked>>

Next ==
    \/ Tick
    \/ \E op \in Operations : \E options \in OptionsOf(op) : Invoke(op, options)
    \/ \E i \in 1..2 : \E reply \in UNION {Replies(m) : m \in Methods} : RpcResolve(i, reply)
    \/ \E i \in 1..2 : \E error \in RpcErrors : RpcReject(i, error)
    \/ \E i \in 1..2 : \E error \in RpcErrors : RpcRejectLate(i, error)
    \/ \E i \in 1..4 : DecodeSettle(i)
    \/ Return

Spec == Init /\ [][Next]_vars

(***************************************************************************)
(* The history specification: createPay on a connection whose backend      *)
(* reports to errors$, while other components report errors of the same    *)
(* connection.                                                             *)
(***************************************************************************)
InitHistory ==
    /\ connectionErrors = EmptyRecord
    /\ emitted = EmptyRecord
    /\ ignored = 0
    /\ conn \in {"wallet1", "conn1"}
    /\ clock = 1000
    /\ call = Idle
    /\ invoked = 0
    /\ held = <<>>
    /\ second = Idle
    /\ allLogs = <<>>
    /\ logged = <<>>

NextHistory ==
    \/ PushOther
    \/ \E options \in OptionsOf("createPay") : Invoke("createPay", options)
    \/ \E reply \in Replies("offer") : RpcResolve(1, reply)
    \/ \E error \in RpcErrors : RpcReject(1, error)
    \/ Return

SpecHistory == InitHistory /\ [][NextHistory]_vars

(***************************************************************************)
(* The flags specification: the operations that return or disable Offers,  *)
(* with a caller that keeps the Offers it was returned.                    *)
(***************************************************************************)
\* the operations that return Offers
ReturnsOffers(op) == op \in {"get", "createPay", "createWithdraw"}

\* the flags an Offer object carries (get() of the connections classes keeps
\* the node's key single_use)
OfferFlags(offer) ==
    [active |-> offer.active,
     used |-> offer.used,
     singleUse |-> IF "singleUse" \in DOMAIN offer THEN offer.singleUse ELSE offer.single_use]

\* the flags of the Offers a resolved invocation hands to its caller
Holding(c) ==
    IF c.op = "get"
    THEN [i \in DOMAIN c.value |-> OfferFlags(c.value[i])]
    ELSE <<OfferFlags(c.value)>>

InitFlags ==
    /\ connectionErrors = EmptyRecord
    /\ emitted = EmptyRecord
    /\ ignored = 0
    /\ conn \in ConnectionIds
    /\ clock = 1000
    /\ call = Idle
    /\ invoked = 0
    /\ held = <<>>
    /\ second = Idle
    /\ allLogs = <<>>
    /\ logged = <<>>

\* the caller takes the outcome and keeps the Offers it was returned
ReturnHolding ==
    /\ call.pc \in {"resolved", "rejected"}
    /\ call' = Idle
    /\ held' = IF call.pc = "resolved" /\ ReturnsOffers(call.op) THEN Holding(call) ELSE held
    /\ UNCHANGED <<second, allLogs, logged, connectionErrors, emitted, ignored, conn, clock,
                   invoked>>

NextFlags ==
    \/ \E op \in {"get", "createPay", "createWithdraw", "disablePay", "disableWithdraw"} :
          \E options \in OptionsOf(op) : Invoke(op, options)
    \/ \E i \in 1..2 : \E reply \in UNION {Replies(m) : m \in Methods} : RpcResolve(i, reply)
    \/ \E i \in 1..2 : \E error \in RpcErrors : RpcReject(i, error)
    \/ \E i \in 1..4 : DecodeSettle(i)
    \/ ReturnHolding

SpecFlags == InitFlags /\ [][NextFlags]_vars

(***************************************************************************)
(* The concurrent specification: two invocations of createPay / disablePay *)
(* run side by side on the Offers instance of one connection; their rpc    *)
(* calls complete in any order.                                            *)
(***************************************************************************)
ConcurrentOperations == {"createPay", "disablePay"}

InitConcurrent ==
    /\ connectionErrors = EmptyRecord
    /\ emitted = EmptyRecord
    /\ ignored = 0
    /\ conn \in ConnectionIds
    /\ clock = 1000
    /\ call = Idle
    /\ invoked = 0
    /\ held = <<>>
    /\ second = Idle
    /\ allLogs = <<>>
    /\ logged = <<>>

\* the effect of a step of the second invocation
ApplySecond(effect) ==
    /\ second' = effect.call
    /\ connectionErrors' =
          IF IsDef(effect.push) THEN ErrorsNext(connectionErrors, Val(effect.push))
          ELSE connectionErrors

\* a caller invokes an operation while the first invocation awaits its call
InvokeSecond(op, options) ==
    /\ call.pc = "rpc"
    /\ second.pc = "idle"
    /\ invoked < MaxInvocations
    /\ op \in OperationsOf(Backend(conn))
    /\ second' = Invocation(op, options, clock, conn)
    /\ invoked' = invoked + 1
    /\ UNCHANGED <<connectionErrors, emitted, ignored, conn, clock, call, held, allLogs, logged>>

\* the node answers the call of the second invocation
SecondRpcResolve(reply) ==
    /\ second.pc = "rpc"
    /\ second.rpcs[1].state = "pending"
    /\ reply \in Replies(second.rpcs[1].request.method)
    /\ LET c == [second EXCEPT !.rpcs[1].state = "resolved", !.rpcs[1].reply = reply]
           completed == Complete(c, reply, clock, conn)
       IN  IF completed.ok
           THEN ApplySecond(Succeed(c, completed.value))
           ELSE ApplySecond(Catch(c, completed.error, conn))
    /\ UNCHANGED <<emitted, ignored, conn, clock, call, invoked, held, allLogs, logged>>

\* the call of the second invocation fails and its catch block runs
SecondRpcReject(error) ==
    /\ second.pc = "rpc"
    /\ second.rpcs[1].state = "pending"
    /\ ApplySecond(Catch([second EXCEPT !.rpcs[1].state = "rejected"], error, conn))
    /\ UNCHANGED <<emitted, ignored, conn, clock, call, invoked, held, allLogs, logged>>

\* both callers have taken their outcomes
ReturnBoth ==
    /\ call.pc \in {"resolved", "rejected"}
    /\ second.pc \in {"resolved", "rejected"}
    /\ call' = Idle
    /\ second' = Idle
    /\ UNCHANGED <<connectionErrors, emitted, ignored, conn, clock, invoked, held, allLogs,
                   logged>>

NextConcurrent ==
    \/ \E op \in ConcurrentOperations : \E options \in OptionsOf(op) : Invoke(op, options)
    \/ \E op \in ConcurrentOperations : \E options \in OptionsOf(op) : InvokeSecond(op, options)
    \/ \E reply \in UNION {Replies(m) : m \in Methods} : RpcResolve(1, reply)
    \/ \E error \in RpcErrors : RpcReject(1, error)
    \/ \E reply \in UNION {Replies(m) : m \in Methods} : SecondRpcResolve(reply)
    \/ \E error \in RpcErrors : SecondRpcReject(error)
    \/ ReturnBoth

SpecConcurrent == InitConcurrent /\ [][NextConcurrent]_vars

(***************************************************************************)
(* The log specification: recentLogs$ of streams.ts, the scan over log$.   *)
(* A log message is a line of text, here told apart by its serial number;  *)
(* the message CLEAR_ALL_LOGS is the one the scan compares against.        *)
(***************************************************************************)
LogCap == 50

ClearAllLogs == [text |-> "CLEAR_ALL_LOGS"]

LogLine(serial) == [text |-> "log", serial |-> serial]

\* while (allLogs.length > 50) allLogs.shift()
RECURSIVE ShiftWhileOver(_)
ShiftWhileOver(logs) ==
    IF Len(logs) > LogCap THEN ShiftWhileOver(Tail(logs)) ELSE logs

\* mutant: the surplus is cut at the end of the buffer
LogScanStepDropsNewest(logs, newLog) ==
    IF newLog.text = "CLEAR_ALL_LOGS"
    THEN <<>>
    ELSE SubSeq(Append(logs, newLog), 1, Min(Len(logs) + 1, LogCap))

\* the reducer of the scan of recentLogs$
LogScanStep(logs, newLog) ==
    IF newLog.text = "CLEAR_ALL_LOGS"
    THEN <<>>
    ELSE ShiftWhileOver(Append(logs, newLog))

\* the CLEAR_ALL_LOGS messages received so far
Clears(received) == {i \in DOMAIN received : received[i] = ClearAllLogs}

InitLogs ==
    /\ connectionErrors = EmptyRecord
    /\ emitted = EmptyRecord
    /\ ignored = 0
    /\ conn = "wallet1"
    /\ clock = 0
    /\ call = Idle
    /\ invoked = 0
    /\ held = <<>>
    /\ second = Idle
    /\ allLogs = <<>>
    /\ logged = <<>>

\* log$ emits a message
ReceiveLog ==
    /\ Len(logged) < MaxLogs
    /\ allLogs' = LogScanStep(allLogs, LogLine(Len(logged) + 1))
    /\ logged' = Append(logged, LogLine(Len(logged) + 1))
    /\ UNCHANGED <<connectionErrors, emitted, ignored, conn, clock, call, invoked, held, second>>

\* log$ emits CLEAR_ALL_LOGS
ReceiveClear ==
    /\ Len(logged) < MaxLogs
    /\ Cardinality(Clears(logged)) < MaxClears
    /\ allLogs' = LogScanStep(allLogs, ClearAllLogs)
    /\ logged' = Append(logged, ClearAllLogs)
    /\ UNCHANGED <<connectionErrors, emitted, ignored, conn, clock, call, invoked, held, second>>

NextLogs == ReceiveLog \/ ReceiveClear

SpecLogs == InitLogs /\ [][NextLogs]_vars

\* C1: the stored history of a connection is exactly the last min(n, 10)
\* connection errors pushed for it, in push order (the newest is retained).
C1_HistoryIsLastTen ==
    \A id \in ConnectionIds : History(id) = LastN(Pushed(id), HistoryCap)

(***************************************************************************)
(* Vocabulary of the claims about operations.                              *)
(***************************************************************************)
Rejected == call.pc = "rejected"

Resolved == call.pc = "resolved"

Running == call.pc # "idle"

\* the error the caller received is a structured ConnectionError
IsConnectionError(error) == "key" \in DOMAIN error /\ "detail" \in DOMAIN error

\* the context literal that names an operation
ContextNaming(op) ==
    CASE op = "get" -> "get (offers)"
      [] op = "createPay" -> "createPay (offers)"
      [] op = "disablePay" -> "disablePay (offers)"
      [] op = "createWithdraw" -> "createWithdraw (offers)"
      [] op = "disableWithdraw" -> "disableWithdraw (offers)"
      [] op = "fetchInvoice" -> "fetchInvoice (offers)"
      [] op = "sendInvoice" -> "sendInvoice (offers)"
      [] OTHER -> "payInvoice (offers)"

Last(s) == s[Len(s)]

\* a call of the running invocation was rejected, or one of its decodes failed
FailedInside ==
    \/ \E i \in DOMAIN call.rpcs : call.rpcs[i].state = "rejected"
    \/ \E i \in Range(call.settled) : ~WellFormed(call.decodes[i].entry.bolt12)
    \/ /\ call.op = "sendInvoice"
       /\ call.rpcs[1].state = "resolved"
       /\ ~IsDef(call.rpcs[1].reply.amount_received_msat)
       /\ ~IsDef(call.options.amount)

DecodeFailedInside ==
    \E i \in Range(call.settled) : ~WellFormed(call.decodes[i].entry.bolt12)

\* C2: when the RPC call of createPay rejects, the caller receives a
\* ConnectionError with context "createPay (offers)" and the connection's
\* own id, and that error is then the last entry of the connection's history.
C2_CreatePayErrorIsNewestInHistory ==
    [][(call.pc = "rpc" /\ call.op = "createPay" /\ call'.pc = "rejected") =>
          /\ IsConnectionError(Val(call'.error))
          /\ Val(call'.error).detail.context = "createPay (offers)"
          /\ Val(call'.error).detail.connectionId = Def(conn)
          /\ History(conn)' # <<>>
          /\ Last(History(conn)') = Val(call'.error)]_vars

\* C3: every failure inside an operation is mapped to a ConnectionError
\* carrying the connection's identity and pushed on the connection's channel
\* before it is re-thrown; no operation resolves after an internal failure.
C3_EveryFailureMappedPushedRethrown ==
    /\ Rejected =>
        /\ IsConnectionError(Val(call.error))
        /\ Val(call.error).detail.connectionId = Def(conn)
        /\ call.pushed = call.error
    /\ Resolved => ~FailedInside

\* C4: the context of the ConnectionError of a failing operation names that
\* operation, so no two operations share a context.
C4_ContextNamesTheOperation ==
    (Rejected /\ IsConnectionError(Val(call.error))) =>
        Val(call.error).detail.context = ContextNaming(call.op)

\* C5: when get() fails because the decode of a listed entry fails, the
\* caller receives a ConnectionError with context "get (offers)" that was
\* pushed to the channel; the raw decode error never reaches the caller.
C5_DecodeFailureOfGetIsMapped ==
    (Rejected /\ call.op = "get" /\ DecodeFailedInside) =>
        /\ Val(call.error) # DecodeError
        /\ IsConnectionError(Val(call.error))
        /\ Val(call.error).detail.context = "get (offers)"
        /\ call.pushed = call.error

\* C6: a successful get() returns the pay-offers in listoffers order, typed
\* pay, followed by the invoice requests in listinvoicerequests order, typed
\* withdraw, whatever order the calls and the decodes completed in.
C6_GetPreservesListingOrder ==
    (Resolved /\ call.op = "get") =>
        LET offers == call.rpcs[1].reply.offers
            invoicerequests == call.rpcs[2].reply.invoicerequests
        IN  /\ Len(call.value) = Len(offers) + Len(invoicerequests)
            /\ \A i \in 1..Len(offers) :
                  /\ call.value[i].id = Def(offers[i].offer_id)
                  /\ call.value[i].type = "pay"
            /\ \A j \in 1..Len(invoicerequests) :
                  /\ call.value[Len(offers) + j].id = Def(invoicerequests[j].invreq_id)
                  /\ call.value[Len(offers) + j].type = "withdraw"

\* C6 witness: a get() resolved with two pay-offers and an invoice request
\* whose decodes did not settle in list order.
C6_Witness ==
    /\ Resolved /\ call.op = "get"
    /\ Len(call.rpcs[1].reply.offers) = 2
    /\ Len(call.rpcs[2].reply.invoicerequests) >= 1
    /\ Len(call.settled) >= 2
    /\ call.settled[1] > call.settled[2]

\* the amount of the options in the unit the node takes: the wallets backend
\* takes sats and the node msats; the connections backends take msats
InNodeUnit(amount) ==
    IF Backend(conn) = "wallet" THEN Msat(amount.whole * 1000 + amount.milli) ELSE amount

\* C7: sendinvoice is issued with [offer, label, amount, timeout, quantity]
\* when an amount is given and with [offer, label, timeout, quantity] when
\* none is; never an empty amount slot, never a dropped amount.
C7_SendInvoiceParamsFollowAmount ==
    (Running /\ call.op = "sendInvoice") =>
        LET params == call.rpcs[1].request.params
            options == call.options
        IN  /\ call.rpcs[1].request.method = "sendinvoice"
            /\ IsDef(options.amount) =>
                  params = <<Def(options.offer), Def(options.label),
                             Def(InNodeUnit(Val(options.amount))),
                             options.timeout, options.quantity>>
            /\ ~IsDef(options.amount) =>
                  params = <<Def(options.offer), Def(options.label),
                             options.timeout, options.quantity>>

\* C7 witness: sendInvoice issued with a given amount (zero sats included)
C7_Witness ==
    /\ Running /\ call.op = "sendInvoice"
    /\ call.options.amount = Def(Sats(0))
    /\ Len(call.rpcs[1].request.params) = 5

\* C8: createPay without an amount sends amount 'any' to the node, never
\* zero or a missing value; with an amount it sends the amount in msats.
C8_CreatePayAmountOrAny ==
    (Running /\ call.op = "createPay") =>
        LET params == call.rpcs[1].request.params IN
        /\ ~IsDef(call.options.amount) => params.amount = Def(AnyAmount)
        /\ IsDef(call.options.amount) =>
              params.amount = Def(InNodeUnit(Val(call.options.amount)))

\* C9: for createPay and createWithdraw the expiry of the returned Offer is
\* the absolute_expiry sent to the node in that call.
C9_ReturnedExpiryIsTheOneSent ==
    (Resolved /\ call.op \in {"createPay", "createWithdraw"}) =>
        call.value.expiry = call.rpcs[1].request.params.absolute_expiry

C11_DisableIssuesOneCall ==
    (Running /\ call.op \in {"disablePay", "disableWithdraw"}) =>
        /\ Len(call.rpcs) = 1
        /\ call.op = "disablePay" =>
              call.rpcs[1].request =
                  [method |-> "disableoffer", params |-> [offer_id |-> call.options.id]]
        /\ call.op = "disableWithdraw" =>
              call.rpcs[1].request =
                  [method |-> "disableinvoicerequest",
                   params |-> [invreq_id |-> call.options.id]]
        /\ call.rpcs[1].state = "resolved" => (Resolved /\ call.value = Undefined)
        /\ Resolved => call.rpcs[1].state = "resolved"

\* C11 witness: disablePay("abc") has resolved after its disableoffer call
C11_Witness ==
    /\ Resolved /\ call.op = "disablePay"
    /\ call.options.id = "abc"
    /\ call.rpcs[1].request.params.offer_id = "abc"

\* C12: no operation retries: the calls of one invocation are those issued
\* when it started, each method at most once, and once a call of the
\* invocation has rejected the invocation is rejected without a further call.
C12_NoRetry ==
    [][call'.pc # "idle" =>
          /\ \A i, j \in DOMAIN call'.rpcs :
                i # j => call'.rpcs[i].request.method # call'.rpcs[j].request.method
          /\ call.pc # "idle" =>
                /\ Len(call'.rpcs) = Len(call.rpcs)
                /\ \A i \in DOMAIN call.rpcs : call'.rpcs[i].request = call.rpcs[i].request
          /\ (\E i \in DOMAIN call'.rpcs : call'.rpcs[i].state = "rejected") =>
                call'.pc = "rejected"]_vars

\* C12 witness: get() rejected after listinvoicerequests failed while
\* listoffers had resolved
C12_Witness ==
    /\ Rejected /\ call.op = "get"
    /\ call.rpcs[1].state = "resolved"
    /\ call.rpcs[2].state = "rejected"

\* the listed entries whose decode has been started
Started == [i \in DOMAIN call.decodes |-> call.decodes[i].entry]

\* C13: get() issues listoffers and listinvoicerequests together, and once
\* both have resolved the decode of every listed entry, pay-offers and
\* invoice requests alike, is started before any decode is waited for.
C13_DecodesStartTogether ==
    (Running /\ call.op = "get") =>
        /\ Len(call.rpcs) = 2
        /\ call.rpcs[1].request.method = "listoffers"
        /\ call.rpcs[2].request.method = "listinvoicerequests"
        /\ call.pc = "decoding" =>
              Started = call.rpcs[1].reply.offers \o call.rpcs[2].reply.invoicerequests

\* the sat amounts the round trip is computed on
SatAmounts == {0, 1, 5, 7, 999, 1000, 1001, MaxSats}

InvoiceAmount(invoice) ==
    IF "amount" \in DOMAIN invoice THEN invoice.amount ELSE invoice.value

\* an amount the caller gave, in sats
RequestedSats(amount) ==
    IF Backend(conn) = "wallet" THEN amount ELSE msatsToSats(amount)

\* C15: the amount of the Invoice sendInvoice returns is the node's
\* amount_received_msat in sats whenever the node reports it, otherwise the
\* requested amount; with neither, sendInvoice fails with a ConnectionError.
C15_SendInvoiceAmount ==
    (Running /\ call.op = "sendInvoice" /\ call.rpcs[1].state = "resolved") =>
        LET received == call.rpcs[1].reply.amount_received_msat
            requested == call.options.amount
        IN  /\ IsDef(received) =>
                  /\ Resolved
                  /\ InvoiceAmount(call.value) =
                        msatsToSats([Val(received) EXCEPT !.suffix = FALSE])
            /\ (~IsDef(received) /\ IsDef(requested)) =>
                  /\ Resolved
                  /\ InvoiceAmount(call.value) = RequestedSats(Val(requested))
            /\ (~IsDef(received) /\ ~IsDef(requested)) =>
                  /\ Rejected
                  /\ IsConnectionError(Val(call.error))

\* the flags the node reported in the responses of an invocation
NodeReported(entry) ==
    [active |-> entry.active, used |-> entry.used, singleUse |-> entry.single_use]

Reported(c) ==
    IF c.op = "get"
    THEN LET listed == c.rpcs[1].reply.offers \o c.rpcs[2].reply.invoicerequests
         IN  [i \in DOMAIN listed |-> NodeReported(listed[i])]
    ELSE <<NodeReported(c.rpcs[1].reply)>>

\* C16: the active, used and single-use values of every Offer returned by
\* get, createPay and createWithdraw are those of the node's response to
\* that call; disablePay and disableWithdraw return nothing, keep no state
\* and leave the Offers the caller holds as they were.
C16_FlagsAreTheNodes ==
    [][/\ (call'.pc = "resolved" /\ ReturnsOffers(call'.op)) =>
             Holding(call') = Reported(call')
       /\ held' # held =>
             (call.pc = "resolved" /\ ReturnsOffers(call.op) /\ held' = Reported(call))
       /\ (call.pc # "idle" /\ call.op \in {"disablePay", "disableWithdraw"}) =>
             /\ held' = held
             /\ call'.pc = "resolved" => call'.value = Undefined
       /\ conn' = conn]_vars

\* C16 witness: disablePay has resolved while the caller holds an Offer the
\* node reported active and one it reported inactive
C16_Witness ==
    /\ Resolved /\ call.op = "disablePay"
    /\ \E i \in DOMAIN held : held[i].active
    /\ \E i \in DOMAIN held : ~held[i].active

\* the client time a returned Invoice says sendInvoice started at: the wallets
\* backend names it createdAt, the connections backends startedAt
InvoiceStartedAt(invoice) ==
    IF "createdAt" \in DOMAIN invoice THEN invoice.createdAt ELSE invoice.startedAt

\* C17: the Invoice sendInvoice returns has completedAt equal to the node's
\* paid_at when the node reported it and to the client's time at completion
\* only when it did not; its createdAt / startedAt is the client's time when
\* the operation was invoked, never later than a synthesized completedAt.
C17_CompletedAtIsPaidAt ==
    [][/\ (call.pc = "idle" /\ call'.pc # "idle" /\ call'.op = "sendInvoice") =>
             call'.locals.createdAt = clock
       /\ (call.pc = "rpc" /\ call.op = "sendInvoice" /\ call'.pc = "resolved") =>
             LET paid_at == call'.rpcs[1].reply.paid_at
                 invoice == call'.value
             IN  /\ InvoiceStartedAt(invoice) = call.locals.createdAt
                 /\ IsDef(paid_at) => invoice.completedAt = Val(paid_at)
                 /\ ~IsDef(paid_at) =>
                       /\ invoice.completedAt = clock
                       /\ InvoiceStartedAt(invoice) <= invoice.completedAt]_vars

\* C17 witness: sendInvoice resolved without paid_at a second after it started
C17_Witness ==
    /\ Resolved /\ call.op = "sendInvoice"
    /\ ~IsDef(call.rpcs[1].reply.paid_at)
    /\ InvoiceStartedAt(call.value) = 1000
    /\ call.value.completedAt = 1001

\* C18: whatever was pushed, for whatever mix of connections, the stored
\* list of every connection holds at most 10 errors.
C18_HistoryAtMostTen ==
    \A id \in DOMAIN connectionErrors : Len(connectionErrors[id]) <= 10

\* C18 witness: more than 10 errors were pushed for one connection, some for
\* another, and the first holds 10
C18_Witness ==
    /\ Len(Pushed("wallet1")) > 10
    /\ Len(Pushed("conn1")) > 0
    /\ Len(History("wallet1")) = 10

\* the id the node gave a listed entry
OwnId(entry) == OrStr(Field(entry, "offer_id"), Field(entry, "invreq_id"))

\* C19: get() is all-or-nothing: it resolves only when both listing calls
\* and every decode succeeded, with one entry per listed entry carrying that
\* entry's id, bolt12 and label; after a failure it is rejected, never
\* resolved with a partial list.
C19_GetAllOrNothing ==
    (Running /\ call.op = "get") =>
        /\ FailedInside => Rejected
        /\ Resolved =>
              LET listed == call.rpcs[1].reply.offers \o call.rpcs[2].reply.invoicerequests
              IN  /\ \A i \in DOMAIN call.rpcs : call.rpcs[i].state = "resolved"
                  /\ Len(call.value) = Len(listed)
                  /\ \A i \in DOMAIN listed :
                        /\ WellFormed(listed[i].bolt12)
                        /\ call.value[i].id = OwnId(listed[i])
                        /\ call.value[i].bolt12 = listed[i].bolt12
                        /\ call.value[i].label = listed[i].label

\* C19 witness: get() rejected on a decode that failed after the decode of
\* another listed entry had succeeded
C19_Witness ==
    /\ Rejected /\ call.op = "get"
    /\ Len(call.settled) >= 2
    /\ WellFormed(call.decodes[call.settled[1]].entry.bolt12)
    /\ ~WellFormed(call.decodes[call.settled[Len(call.settled)]].entry.bolt12)

\* C20: an invocation pushes exactly one error on the connection's error
\* channel when it fails, whatever failed in it, and none otherwise.
C20_OnePushPerFailure ==
    [][Len(History(conn)') =
          Len(History(conn)) +
            (IF call.pc \in {"rpc", "listing", "decoding"} /\ call'.pc = "rejected"
             THEN 1 ELSE 0)]_vars

\* C21: recording an error for one connection leaves the stored history of
\* every other connection as it was, and the length of a connection's
\* history is decided by that connection's own errors alone.
C21_HistoriesAreIsolated ==
    [][/\ \A id \in ConnectionIds :
             Pushed(id)' = Pushed(id) => History(id)' = History(id)
       /\ \A id \in ConnectionIds :
             Len(History(id)') = Min(Len(Pushed(id)'), 10)]_vars

\* C21 witness: 6 errors recorded for each of two connections, 12 in all,
\* and each history holds its own 6
C21_Witness ==
    /\ Len(Pushed("wallet1")) = 6 /\ Len(History("wallet1")) = 6
    /\ Len(Pushed("conn1")) = 6 /\ Len(History("conn1")) = 6

\* C22: an error whose key does not start with "connection_", or whose
\* detail carries no connectionId, leaves every stored history unchanged and
\* creates no entry.
C22_OnlyIdentifiedConnectionErrors ==
    [][ignored' # ignored => connectionErrors' = connectionErrors]_vars

\* C22 witness: two such errors were emitted, one of them naming a connection
\* that has a history
C22_Witness ==
    /\ ignored = 2
    /\ Len(History("wallet1")) = 1
    /\ Len(Pushed("wallet1")) = 1

\* the failure of invocation c was mapped, names its operation and connection,
\* and is the newest entry of the history, behind all earlier ones
FailureRecorded(c, before, after) ==
    /\ IsConnectionError(Val(c.error))
    /\ Val(c.error).detail.context = ContextNaming(c.op)
    /\ Val(c.error).detail.connectionId = Def(conn)
    /\ after = Append(before, Val(c.error))

\* C23: when two operations run concurrently on one connection and fail, in
\* any order of their rpc completions, each failure is pushed on the
\* connection's channel when it occurs, so the channel holds them in the
\* order of the failures; each caller is rejected with the error of its own
\* operation, carrying that operation's context.
C23_ConcurrentFailures ==
    [][/\ (call.pc = "rpc" /\ second.pc # "idle" /\ call'.pc = "rejected") =>
             FailureRecorded(call', History(conn), History(conn)')
       /\ (second.pc = "rpc" /\ second'.pc = "rejected") =>
             FailureRecorded(second', History(conn), History(conn)')
       /\ (call.pc = "rejected" /\ call'.pc = "rejected") => call'.error = call.error
       /\ (second.pc = "rejected" /\ second'.pc = "rejected") =>
             second'.error = second.error]_vars

\* the messages received since the most recent CLEAR_ALL_LOGS
SinceClear(received) ==
    IF Clears(received) = {}
    THEN received
    ELSE LET last == CHOOSE i \in Clears(received) : \A j \in Clears(received) : j <= i
         IN  SubSeq(received, last + 1, Len(received))

\* C24: the recent-log buffer holds at most 50 entries and is the last
\* min(n, 50) of the n messages received since the most recent
\* CLEAR_ALL_LOGS, in arrival order; CLEAR_ALL_LOGS itself is never stored.
C24_RecentLogsAreLastFifty ==
    /\ Len(allLogs) <= 50
    /\ allLogs = LastN(SinceClear(logged), 50)
    /\ \A i \in DOMAIN allLogs : allLogs[i] # ClearAllLogs

\* C24 witness: 51 messages were received after a CLEAR_ALL_LOGS and the
\* buffer holds the last 50 of them
C24_Witness ==
    /\ Clears(logged) # {}
    /\ Len(SinceClear(logged)) = 51
    /\ Len(allLogs) = 50
    /\ allLogs[1] = SinceClear(logged)[2]

====
